---- MODULE Spec2Model ----
(***************************************************************************)
(* Model of the classical core of Quantum-Crypto-Attack:                   *)
(*   include/matrix.hpp   MatrixSolver<Width>  (incremental GF(2) solver)  *)
(*   include/feistel.hpp  run_feistel_encrypt / run_feistel_decrypt / run_f*)
(*   include/simon.hpp    run_simon (the support of its measurement)       *)
(*   src/main.cpp         run_feistel_detect, run_feistel_tests            *)
(* C++ arrays and vectors are functions over 0..n-1, so that every index   *)
(* of the model is the index of the source.                                *)
(***************************************************************************)
EXTENDS Integers, FiniteSets, Sequences, TLC

VARIABLES
    Width,              \* template parameter of the MatrixSolver instance
    independent_rows,   \* MatrixSolver::independent_rows
    contents,           \* MatrixSolver::contents (vector of array<bool, Width>)
    targets,            \* MatrixSolver::targets
    last,               \* the last public call on the solver and how it ended
    submitted,          \* the encoded equations handed to addRow, in call order
    outcomes,           \* how each of those addRow calls ended, in call order
    pc,                 \* position of the running routine
    loop_i,             \* loop counter i of the running routine (size_t i)
    input,              \* run_feistel_classic_test: input
    keys,               \* the round keys handed to the Feistel routines
    round_function,     \* the round function, at the arguments it was called with
    half_l,             \* run_feistel_encrypt / _decrypt: l
    half_r,             \* run_feistel_encrypt / _decrypt: r
    encrypted,          \* run_feistel_classic_test: encrypted
    decrypted,          \* run_feistel_classic_test: decrypted
    internal_callback,  \* run_feistel_detect: the oracle, as the table of its values
    ALPHA,              \* run_feistel_detect: ALPHA
    BETA,               \* run_feistel_detect: BETA
    s_solved,           \* run_feistel_detect: s
    u_drawn,            \* run_feistel_detect: u
    f_u,                \* run_feistel_detect: f_u
    f_u_s,              \* run_feistel_detect: f_u_s
    verdict,            \* the line run_feistel_detect printed, "" before it
    rejected,           \* the number of samples the catch block discarded
    oracle_N,           \* bitflip_oracle: template parameter N
    oracle_M,           \* bitflip_oracle: template parameter M
    oracle_function,    \* bitflip_oracle: function, as the table of its values
    x_y,                \* bitflip_oracle: the register x_y, in a basis state
    x_y_before,         \* the basis state x_y was in when bitflip_oracle was called
    oracle_i,           \* bitflip_oracle: i
    oracle_j,           \* bitflip_oracle: j
    oracle_result,      \* bitflip_oracle: result
    registered          \* the calls of create_toggle_if_match made, as <<value, target>>

solverVars == <<Width, independent_rows, contents, targets, last, submitted, outcomes>>

feistelVars == <<input, keys, round_function, half_l, half_r, encrypted, decrypted>>

detectVars == <<internal_callback, ALPHA, BETA, s_solved, u_drawn, f_u, f_u_s, verdict,
                rejected>>

oracleVars == <<oracle_N, oracle_M, oracle_function, x_y, x_y_before, oracle_i, oracle_j,
                oracle_result, registered>>

vars == <<solverVars, pc, loop_i, feistelVars, detectVars, oracleVars>>

\* Largest number of addRow calls on a MatrixSolver<2>.
MaxRows == 4
\* Largest number of addRow calls on a MatrixSolver<3>.
MaxRowsWide == 3
\* Template parameter Bits of the Feistel routines and of the detection.
Bits == 2
\* Template parameter Rounds (FEISTEL_ROUNDS).
Rounds == 3
\* Round keys are drawn from 0..MaxKey.
MaxKey == 1
\* generate_permuation_map swaps at most MaxSwaps times.
MaxSwaps == 1
\* A run of run_feistel_detect discards at most MaxRejected samples.
MaxRejected == 1

----------------------------------------------------------------------------
(* Integer helpers: the bit operations of size_t.                          *)

RECURSIVE Pow2(_)
Pow2(n) == IF n = 0 THEN 1 ELSE 2 * Pow2(n - 1)

\* (v >> i) & 1
Bit(v, i) == (v \div Pow2(i)) % 2

\* a ^ b
RECURSIVE BitXor(_, _)
BitXor(a, b) ==
    IF a = 0 /\ b = 0 THEN 0
    ELSE (((a % 2) + (b % 2)) % 2) + 2 * BitXor(a \div 2, b \div 2)

\* a | b
RECURSIVE BitOr(_, _)
BitOr(a, b) ==
    IF a = 0 /\ b = 0 THEN 0
    ELSE (IF a % 2 = 1 \/ b % 2 = 1 THEN 1 ELSE 0) + 2 * BitOr(a \div 2, b \div 2)

\* The parity of the number of bit positions set in both a and b.
RECURSIVE BitDot(_, _)
BitDot(a, b) ==
    IF a = 0 \/ b = 0 THEN 0
    ELSE ((a % 2) * (b % 2) + BitDot(a \div 2, b \div 2)) % 2

\* The smallest element of a nonempty set of integers.
Min(S) == CHOOSE m \in S : \A o \in S : m <= o

\* vector::size() / array::size()
Size(a) == Cardinality(DOMAIN a)

\* The array f[0], ..., f[n-1] written out element by element.
RECURSIVE Array(_, _)
Array(f, n) == IF n = 0 THEN <<>> ELSE Array(f, n - 1) @@ ((n - 1) :> f[n - 1])

\* vector::push_back
PushBack(a, v) == [i \in 0..Size(a) |-> IF i < Size(a) THEN a[i] ELSE v]

\* std::swap(a[i], a[j])
Swap(a, i, j) == [a EXCEPT ![i] = a[j], ![j] = a[i]]

----------------------------------------------------------------------------
(* include/matrix.hpp                                                      *)

xor_vectors(dest, src) == Array([i \in DOMAIN dest |-> dest[i] # src[i]], Size(dest))

zero_vector(src) == \A i \in DOMAIN src : ~src[i]

\* one_vector() that looks at the last element only.
one_vector_LastOnly(src) == src[Size(src) - 1]

one_vector(src) ==
    /\ \A i \in 0..(Size(src) - 2) : ~src[i]
    /\ src[Size(src) - 1]

\* One iteration (column j) of the elimination loop of independent():
\* the pivot search with its swap, then the xor of the rows below the pivot.
\* cc has n rows; the result is the pair <<content_copy, row_offset>>.
IndependentColumn(cc, n, j, row_offset) ==
    LET P == {k \in row_offset..(n - 1) : cc[k][j]}
        swapped == IF P = {} THEN cc ELSE Swap(cc, Min(P), row_offset)
        ro == IF P = {} THEN row_offset ELSE row_offset + 1
    IN  << Array([k \in 0..(n - 1) |->
                     IF k >= ro /\ swapped[k][j] /\ swapped[ro - 1][j]
                     THEN xor_vectors(swapped[k], swapped[ro - 1])
                     ELSE swapped[k]], n),
           ro >>

RECURSIVE IndependentEliminate(_, _, _, _, _)
IndependentEliminate(W, cc, n, j, row_offset) ==
    IF j >= W + 1 THEN cc
    ELSE LET step == IndependentColumn(cc, n, j, row_offset)
         IN  IndependentEliminate(W, step[1], n, j + 1, step[2])

\* independent() with the candidate's target read at index independent_rows
\* instead of index row.
independent_TargetAtRank(W, this, row) ==
    LET n == this.independent_rows
        content_copy ==
            [i \in 0..n |->
                [j \in 0..W |->
                    IF i < n
                    THEN (IF j < W THEN this.contents[i][j] ELSE this.targets[i])
                    ELSE (IF j < W THEN this.contents[row][j] ELSE this.targets[n])]]
        reduced == IndependentEliminate(W, content_copy, n + 1, 0, 0)
    IN  [thrown |-> one_vector(reduced[n]),
         value  |-> ~zero_vector(reduced[n])]

\* independent() with the candidate's coefficients read at index
\* independent_rows instead of index row.
independent_RowAtRank(W, this, row) ==
    LET n == this.independent_rows
        content_copy ==
            [i \in 0..n |->
                [j \in 0..W |->
                    IF i < n
                    THEN (IF j < W THEN this.contents[i][j] ELSE this.targets[i])
                    ELSE (IF j < W THEN this.contents[n][j] ELSE this.targets[row])]]
        reduced == IndependentEliminate(W, content_copy, n + 1, 0, 0)
    IN  [thrown |-> one_vector(reduced[n]),
         value  |-> ~zero_vector(reduced[n])]

\* MatrixSolver::independent(row): thrown is the runtime_error("Invalid
\* equation"), value the returned bool when nothing is thrown.
independent(W, this, row) ==
    LET n == this.independent_rows
        content_copy ==
            [i \in 0..n |->
                [j \in 0..W |->
                    IF i < n
                    THEN (IF j < W THEN this.contents[i][j] ELSE this.targets[i])
                    ELSE (IF j < W THEN this.contents[row][j] ELSE this.targets[row])]]
        reduced == IndependentEliminate(W, content_copy, n + 1, 0, 0)
    IN  [thrown |-> one_vector(reduced[n]),
         value  |-> ~zero_vector(reduced[n])]

\* addRow() that counts every row that did not throw as independent.
addRow_CountsEveryRow(W, this, new_row, solution) ==
    LET pushed == [this EXCEPT !.contents = PushBack(this.contents, new_row),
                               !.targets  = PushBack(this.targets, solution)]
        lastIx == Size(pushed.contents) - 1
        ind    == independent(W, pushed, lastIx)
    IN  IF ind.thrown THEN [this |-> pushed, thrown |-> TRUE]
        ELSE [this |-> [independent_rows |-> pushed.independent_rows + 1,
                        contents |-> Swap(pushed.contents, pushed.independent_rows, lastIx),
                        targets  |-> Swap(pushed.targets, pushed.independent_rows, lastIx)],
              thrown |-> FALSE]

\* addRow() whose swap into the prefix forgets the targets.
addRow_NoTargetSwap(W, this, new_row, solution) ==
    LET pushed == [this EXCEPT !.contents = PushBack(this.contents, new_row),
                               !.targets  = PushBack(this.targets, solution)]
        lastIx == Size(pushed.contents) - 1
        ind    == independent(W, pushed, lastIx)
    IN  IF ind.thrown THEN [this |-> pushed, thrown |-> TRUE]
        ELSE IF ind.value
        THEN [this |-> [independent_rows |-> pushed.independent_rows + 1,
                        contents |-> Swap(pushed.contents, pushed.independent_rows, lastIx),
                        targets  |-> pushed.targets],
              thrown |-> FALSE]
        ELSE [this |-> pushed, thrown |-> FALSE]

\* MatrixSolver::addRow(const std::array<bool, Width>&, bool): the solver
\* after the call, and whether the call threw.  The push_back happens before
\* independent() runs, so a throwing call leaves the row in the vectors.
addRow(W, this, new_row, solution) ==
    LET pushed == [this EXCEPT !.contents = PushBack(this.contents, new_row),
                               !.targets  = PushBack(this.targets, solution)]
        lastIx == Size(pushed.contents) - 1
        ind    == independent(W, pushed, lastIx)
    IN  IF ind.thrown THEN [this |-> pushed, thrown |-> TRUE]
        ELSE IF ind.value
        THEN [this |-> [independent_rows |-> pushed.independent_rows + 1,
                        contents |-> Swap(pushed.contents, pushed.independent_rows, lastIx),
                        targets  |-> Swap(pushed.targets, pushed.independent_rows, lastIx)],
              thrown |-> FALSE]
        ELSE [this |-> pushed, thrown |-> FALSE]

\* The decoding loop with mask = 1 << i.
DecodeRow_NoShift(W, encoded) == [i \in 0..(W - 1) |-> Bit(encoded, i) = 1]

\* The decoding loop of MatrixSolver::addRow(size_t encoded).
DecodeRow(W, encoded) == [i \in 0..(W - 1) |-> Bit(encoded, i + 1) = 1]

\* The target read as the complement of encoded & 1.
DecodeTarget_Inverted(encoded) == Bit(encoded, 0) = 0

\* encoded & 1
DecodeTarget(encoded) == Bit(encoded, 0) = 1

\* MatrixSolver::addRow(size_t encoded)
addRowEncoded(W, this, encoded) ==
    addRow(W, this, DecodeRow(W, encoded), DecodeTarget(encoded))

\* gaussianEliminate() whose pivot swap forgets the targets.
GaussianColumn_NoTargetSwap(this, i) ==
    LET n == this.independent_rows
        P == {j \in i..(n - 1) : this.contents[j][i]}
        c == IF P = {} THEN this.contents ELSE Swap(this.contents, Min(P), i)
        t == this.targets
    IN  [this EXCEPT
            !.contents = [j \in DOMAIN c |->
                             IF j >= i + 1 /\ j < n /\ c[j][i]
                             THEN xor_vectors(c[j], c[i]) ELSE c[j]],
            !.targets  = [j \in DOMAIN t |->
                             IF j >= i + 1 /\ j < n /\ c[j][i]
                             THEN t[i] # t[j] ELSE t[j]]]

\* gaussianEliminate() that tests contents[i][j] in the elimination loop.
GaussianColumn_TransposedTest(this, i) ==
    LET n == this.independent_rows
        P == {j \in i..(n - 1) : this.contents[j][i]}
        c == IF P = {} THEN this.contents ELSE Swap(this.contents, Min(P), i)
        t == IF P = {} THEN this.targets ELSE Swap(this.targets, Min(P), i)
    IN  [this EXCEPT
            !.contents = [j \in DOMAIN c |->
                             IF j >= i + 1 /\ j < n /\ c[i][j]
                             THEN xor_vectors(c[j], c[i]) ELSE c[j]],
            !.targets  = [j \in DOMAIN t |->
                             IF j >= i + 1 /\ j < n /\ c[i][j]
                             THEN t[i] # t[j] ELSE t[j]]]

\* gaussianEliminate() whose elimination loop runs to contents.size().
GaussianColumn_AllRows(this, i) ==
    LET n == this.independent_rows
        P == {j \in i..(n - 1) : this.contents[j][i]}
        c == IF P = {} THEN this.contents ELSE Swap(this.contents, Min(P), i)
        t == IF P = {} THEN this.targets ELSE Swap(this.targets, Min(P), i)
    IN  [this EXCEPT
            !.contents = [j \in DOMAIN c |->
                             IF j >= i + 1 /\ c[j][i]
                             THEN xor_vectors(c[j], c[i]) ELSE c[j]],
            !.targets  = [j \in DOMAIN t |->
                             IF j >= i + 1 /\ c[j][i]
                             THEN t[i] # t[j] ELSE t[j]]]

\* gaussianEliminate() whose elimination leaves the targets as they are.
GaussianColumn_NoTargetXor(this, i) ==
    LET n == this.independent_rows
        P == {j \in i..(n - 1) : this.contents[j][i]}
        c == IF P = {} THEN this.contents ELSE Swap(this.contents, Min(P), i)
        t == IF P = {} THEN this.targets ELSE Swap(this.targets, Min(P), i)
    IN  [this EXCEPT
            !.contents = [j \in DOMAIN c |->
                             IF j >= i + 1 /\ j < n /\ c[j][i]
                             THEN xor_vectors(c[j], c[i]) ELSE c[j]],
            !.targets  = t]

\* One iteration (column i) of gaussianEliminate().
GaussianColumn(this, i) ==
    LET n == this.independent_rows
        P == {j \in i..(n - 1) : this.contents[j][i]}
        c == IF P = {} THEN this.contents ELSE Swap(this.contents, Min(P), i)
        t == IF P = {} THEN this.targets ELSE Swap(this.targets, Min(P), i)
    IN  [this EXCEPT
            !.contents = [j \in DOMAIN c |->
                             IF j >= i + 1 /\ j < n /\ c[j][i]
                             THEN xor_vectors(c[j], c[i]) ELSE c[j]],
            !.targets  = [j \in DOMAIN t |->
                             IF j >= i + 1 /\ j < n /\ c[j][i]
                             THEN t[i] # t[j] ELSE t[j]]]

RECURSIVE GaussianLoop(_, _, _)
GaussianLoop(W, this, i) ==
    IF i >= W THEN this
    ELSE GaussianLoop(W, GaussianColumn(this, i), i + 1)

\* MatrixSolver::gaussianEliminate(): works on the solver's own vectors.
gaussianEliminate(W, this) == GaussianLoop(W, this, 0)

\* The inner loop with sub_result ^= result[i], the coefficient left out.
RECURSIVE SubResult_NoCoefficient(_, _, _, _)
SubResult_NoCoefficient(this, result, index, i) ==
    IF i >= this.independent_rows THEN FALSE
    ELSE result[i] # SubResult_NoCoefficient(this, result, index, i + 1)

\* The inner loop of backwardSubstitute(): sub_result after i = from..n-1.
RECURSIVE SubResult(_, _, _, _)
SubResult(this, result, index, i) ==
    IF i >= this.independent_rows THEN FALSE
    ELSE (result[i] /\ this.contents[index][i]) # SubResult(this, result, index, i + 1)

RECURSIVE BackwardLoop(_, _, _)
BackwardLoop(this, result, j) ==
    IF j = 0 THEN result
    ELSE LET index == j - 1
         IN  BackwardLoop(this,
                 [result EXCEPT ![index] =
                     SubResult(this, result, index, index + 1) # this.targets[index]],
                 j - 1)

\* MatrixSolver::backwardSubstitute(): result starts uninitialized; every
\* entry below independent_rows is written before it is read.
backwardSubstitute(W, this) ==
    BackwardLoop(this, [i \in 0..(W - 1) |-> "uninitialized"], this.independent_rows)

\* solve() that throws only on an empty solver.
solve_ChecksNonEmpty(W, this) ==
    IF this.independent_rows = 0
    THEN [this |-> this, thrown |-> TRUE, result |-> <<>>]
    ELSE LET e == gaussianEliminate(W, this)
         IN  [this |-> e, thrown |-> FALSE, result |-> backwardSubstitute(W, e)]

\* MatrixSolver::solve(): the solver after the call, whether it threw
\* runtime_error("Could not solve, invalid number of rows"), and the result.
solve(W, this) ==
    IF this.independent_rows # W
    THEN [this |-> this, thrown |-> TRUE, result |-> <<>>]
    ELSE LET e == gaussianEliminate(W, this)
         IN  [this |-> e, thrown |-> FALSE, result |-> backwardSubstitute(W, e)]

\* The encoding loop started from result = 0, the selector bit left clear.
RECURSIVE EncodeSolution_NoSelectorBit(_, _)
EncodeSolution_NoSelectorBit(solution, i) ==
    IF i >= Size(solution) THEN 0
    ELSE (IF solution[i] THEN Pow2(i + 1) ELSE 0)
         + EncodeSolution_NoSelectorBit(solution, i + 1)

\* The encoding loop of solveEncoded(): result |= solution[i] << (i+1).
RECURSIVE EncodeSolution(_, _)
EncodeSolution(solution, i) ==
    IF i >= Size(solution) THEN 1
    ELSE (IF solution[i] THEN Pow2(i + 1) ELSE 0) + EncodeSolution(solution, i + 1)

\* MatrixSolver::solveEncoded()
solveEncoded(W, this) ==
    LET s == solve(W, this)
    IN  IF s.thrown THEN [this |-> s.this, thrown |-> TRUE, solution |-> <<>>, result |-> 0]
        ELSE [this |-> s.this, thrown |-> FALSE, solution |-> s.result,
              result |-> EncodeSolution(s.result, 0)]

\* MatrixSolver::getIndependent()
getIndependent(this) == this.independent_rows

----------------------------------------------------------------------------
(* include/feistel.hpp: run_feistel_encrypt and run_feistel_decrypt.       *)

\* r = input & r_mask
SplitR(B, in) == in % Pow2(B)

\* l = (input & l_mask) >> Bits
SplitL(B, in) == (in \div Pow2(B)) % Pow2(B)

\* return r | (l << Bits)
Join(B, left, right) == BitOr(right, left * Pow2(B))

\* One round of run_feistel_encrypt, fv the value round_function(r, keys[i]).
EncryptRound(left, right, fv) == [l |-> right, r |-> BitXor(left, fv)]

\* One round of run_feistel_decrypt that applies the key in forward order.
DecryptKeyIndex_Forward(ks, n) == n

\* The key index of round i of run_feistel_decrypt.
DecryptKeyIndex(ks, n) == Size(ks) - 1 - n

\* One round of run_feistel_decrypt, fv the value round_function(l, key).
DecryptRound(left, right, fv) == [r |-> left, l |-> BitXor(right, fv)]

RECURSIVE EncryptLoop(_, _, _, _, _)
EncryptLoop(rf, ks, left, right, n) ==
    IF n >= Size(ks) THEN [l |-> left, r |-> right]
    ELSE LET nx == EncryptRound(left, right, rf[<<right, ks[n]>>])
         IN  EncryptLoop(rf, ks, nx.l, nx.r, n + 1)

\* run_feistel_encrypt<Bits, Rounds>(input, round_function, keys), the
\* round function given as the table rf of its values.
run_feistel_encrypt(B, in, rf, ks) ==
    LET e == EncryptLoop(rf, ks, SplitL(B, in), SplitR(B, in), 0)
    IN  Join(B, e.l, e.r)

RECURSIVE DecryptLoop(_, _, _, _, _)
DecryptLoop(rf, ks, left, right, n) ==
    IF n >= Size(ks) THEN [l |-> left, r |-> right]
    ELSE LET pv == DecryptRound(left, right, rf[<<left, ks[DecryptKeyIndex(ks, n)]>>])
         IN  DecryptLoop(rf, ks, pv.l, pv.r, n + 1)

\* run_feistel_decrypt<Bits, Rounds>(input, round_function, keys)
run_feistel_decrypt(B, in, rf, ks) ==
    LET d == DecryptLoop(rf, ks, SplitL(B, in), SplitR(B, in), 0)
    IN  Join(B, d.l, d.r)

\* make_feistel_encrypt<Bits, Rounds>(round_function, keys): the bound
\* function, as the table of its values on the blocks of 2 * Bits bits.
make_feistel_encrypt(B, rf, ks) ==
    Array([x \in 0..(Pow2(2 * B) - 1) |-> run_feistel_encrypt(B, x, rf, ks)], Pow2(2 * B))

\* The lambda w of run_f: (callback(input) >> Bits) & bitmask
run_f_w(B, in, callback) == (callback[in] \div Pow2(B)) % Pow2(B)

\* run_f that returns w(a << Bits | mask) without removing the mask.
run_f_MaskLeftIn(B, in, callback, alpha, beta) ==
    LET a == in \div 2
        b == in % 2
        mask == IF b # 0 THEN beta ELSE alpha
    IN  run_f_w(B, BitOr(a * Pow2(B), mask), callback)

\* run_f<Bits>(input, callback, alpha, beta)
run_f(B, in, callback, alpha, beta) ==
    LET a == in \div 2
        b == in % 2
        mask == IF b # 0 THEN beta ELSE alpha
    IN  BitXor(run_f_w(B, BitOr(a * Pow2(B), mask), callback), mask)

----------------------------------------------------------------------------
(* The solver driven by an arbitrary caller.                               *)

\* The instantiations MatrixSolver<2> and MatrixSolver<3>.
SolverWidths == {2, 3}

RowLimit(W) == IF W = 2 THEN MaxRows ELSE MaxRowsWide

\* The solver object held in the variables.
Solver == [independent_rows |-> independent_rows, contents |-> contents, targets |-> targets]

SolveOps == {"solve", "solveEncoded"}

\* No call yet.  op: the call; thrown: it ended in a runtime_error; arg: the
\* argument of addRow(size_t); result: the array solve() returned; encoded:
\* the value solveEncoded() returned; again: the call before this solve was
\* a solve that returned.
NoCall == [op |-> "none", thrown |-> FALSE, arg |-> 0, result |-> <<>>,
           encoded |-> 0, again |-> FALSE]

Returned(call) == call.op \in SolveOps /\ ~call.thrown

\* How a call of addRow on the solver this ended, r being what addRow gave:
\* it threw, it took the equation into the independent prefix, or it left
\* the equation behind the prefix.
AddRowOutcome(this, r) ==
    IF r.thrown THEN "rejected"
    ELSE IF getIndependent(r.this) > getIndependent(this) THEN "independent"
    ELSE "redundant"

\* A MatrixSolver as its constructor leaves it.
NewSolver == [independent_rows |-> 0, contents |-> <<>>, targets |-> <<>>]

\* The solver this after addRow(encoded) was called for the elements k..
\* of the sequence rows, in order; a call that throws leaves its row stored.
RECURSIVE AddRows(_, _, _, _)
AddRows(W, this, rows, k) ==
    IF k > Len(rows) THEN this
    ELSE AddRows(W, addRowEncoded(W, this, rows[k]).this, rows, k + 1)

\* MatrixSolver(): independent_rows(0), empty vectors.
SolverInit ==
    /\ independent_rows = 0
    /\ contents = <<>>
    /\ targets = <<>>
    /\ last = NoCall
    /\ submitted = <<>>
    /\ outcomes = <<>>

\* No Feistel routine is running.
FeistelIdle ==
    /\ input = 0
    /\ keys = <<>>
    /\ round_function = <<>>
    /\ half_l = 0
    /\ half_r = 0
    /\ encrypted = 0
    /\ decrypted = 0

\* No detection is running.
DetectIdle ==
    /\ internal_callback = <<>>
    /\ ALPHA = 0
    /\ BETA = 0
    /\ s_solved = 0
    /\ u_drawn = 0
    /\ f_u = 0
    /\ f_u_s = 0
    /\ verdict = ""
    /\ rejected = 0

\* No bitflip_oracle is running.
OracleIdle ==
    /\ oracle_N = 0
    /\ oracle_M = 0
    /\ oracle_function = <<>>
    /\ x_y = 0
    /\ x_y_before = 0
    /\ oracle_i = 0
    /\ oracle_j = 0
    /\ oracle_result = 0
    /\ registered = <<>>

Init ==
    /\ Width \in SolverWidths
    /\ SolverInit
    /\ pc = "solver"
    /\ loop_i = 0
    /\ FeistelIdle
    /\ DetectIdle
    /\ OracleIdle

\* solver.addRow(encoded)
AddRow ==
    /\ Size(contents) < RowLimit(Width)
    /\ \E encoded \in 0..(Pow2(Width + 1) - 1) :
         \E r \in {addRowEncoded(Width, Solver, encoded)} :
             /\ independent_rows' = r.this.independent_rows
             /\ contents' = r.this.contents
             /\ targets' = r.this.targets
             /\ last' = [NoCall EXCEPT !.op = "addRow", !.thrown = r.thrown, !.arg = encoded]
             /\ submitted' = Append(submitted, encoded)
             /\ outcomes' = Append(outcomes, AddRowOutcome(Solver, r))
    /\ UNCHANGED <<Width, pc, loop_i, feistelVars, detectVars, oracleVars>>

\* solver.solve()
Solve ==
    /\ \E r \in {solve(Width, Solver)} :
         /\ independent_rows' = r.this.independent_rows
         /\ contents' = r.this.contents
         /\ targets' = r.this.targets
         /\ last' = [NoCall EXCEPT !.op = "solve", !.thrown = r.thrown,
                                   !.result = r.result, !.again = Returned(last)]
    /\ UNCHANGED <<Width, submitted, outcomes, pc, loop_i, feistelVars, detectVars,
                   oracleVars>>

\* solver.solveEncoded()
SolveEncoded ==
    /\ \E r \in {solveEncoded(Width, Solver)} :
         /\ independent_rows' = r.this.independent_rows
         /\ contents' = r.this.contents
         /\ targets' = r.this.targets
         /\ last' = [NoCall EXCEPT !.op = "solveEncoded", !.thrown = r.thrown,
                                   !.result = r.solution, !.encoded = r.result,
                                   !.again = Returned(last)]
    /\ UNCHANGED <<Width, submitted, outcomes, pc, loop_i, feistelVars, detectVars,
                   oracleVars>>

Next == AddRow \/ Solve \/ SolveEncoded

Spec == Init /\ [][Next]_vars

----------------------------------------------------------------------------
(* run_feistel_classic_test (src/main.cpp): encrypt an input, decrypt the  *)
(* result.  The round function is any function of (half, key): its value   *)
(* at an argument is chosen when the argument is first used and kept.      *)

KeySet == 0..MaxKey

\* The values a round function may return: Func is any callable returning
\* size_t, so the half blocks 0..(2^Bits - 1) and the first value above them.
RoundOutputs == 0..Pow2(Bits)

\* The round function returns fv at argument q, in agreement with every
\* earlier call.
Returns(q, fv) ==
    /\ fv \in RoundOutputs
    /\ q \in DOMAIN round_function => fv = round_function[q]

\* The round function with its value at q recorded.
Called(q, fv) ==
    [x \in DOMAIN round_function \cup {q} |-> IF x = q THEN fv ELSE round_function[x]]

SolverIdle ==
    /\ Width = Bits
    /\ SolverInit

\* size_t input = rand() % 2^(2*Bits); keys of the caller's choice.
FeistelInit ==
    /\ SolverIdle
    /\ DetectIdle
    /\ OracleIdle
    /\ input \in 0..(Pow2(2 * Bits) - 1)
    /\ keys \in [0..(Rounds - 1) -> KeySet]
    /\ round_function = <<>>
    /\ pc = "encrypt"
    /\ loop_i = 0
    /\ half_l = SplitL(Bits, input)
    /\ half_r = SplitR(Bits, input)
    /\ encrypted = 0
    /\ decrypted = 0

\* One iteration of the loop of run_feistel_encrypt.
EncryptStep ==
    /\ pc = "encrypt"
    /\ loop_i < Size(keys)
    /\ \E fv \in RoundOutputs :
         /\ Returns(<<half_r, keys[loop_i]>>, fv)
         /\ round_function' = Called(<<half_r, keys[loop_i]>>, fv)
         /\ half_l' = EncryptRound(half_l, half_r, fv).l
         /\ half_r' = EncryptRound(half_l, half_r, fv).r
    /\ loop_i' = loop_i + 1
    /\ UNCHANGED <<solverVars, detectVars, oracleVars, pc, input, keys, encrypted, decrypted>>

\* run_feistel_encrypt returns; run_feistel_decrypt splits its input.
EncryptReturn ==
    /\ pc = "encrypt"
    /\ loop_i >= Size(keys)
    /\ encrypted' = Join(Bits, half_l, half_r)
    /\ half_l' = SplitL(Bits, encrypted')
    /\ half_r' = SplitR(Bits, encrypted')
    /\ loop_i' = 0
    /\ pc' = "decrypt"
    /\ UNCHANGED <<solverVars, detectVars, oracleVars, input, keys, round_function, decrypted>>

\* One iteration of the loop of run_feistel_decrypt.
DecryptStep ==
    /\ pc = "decrypt"
    /\ loop_i < Size(keys)
    /\ \E fv \in RoundOutputs :
         /\ Returns(<<half_l, keys[DecryptKeyIndex(keys, loop_i)]>>, fv)
         /\ round_function' = Called(<<half_l, keys[DecryptKeyIndex(keys, loop_i)]>>, fv)
         /\ half_l' = DecryptRound(half_l, half_r, fv).l
         /\ half_r' = DecryptRound(half_l, half_r, fv).r
    /\ loop_i' = loop_i + 1
    /\ UNCHANGED <<solverVars, detectVars, oracleVars, pc, input, keys, encrypted, decrypted>>

\* run_feistel_decrypt returns.
DecryptReturn ==
    /\ pc = "decrypt"
    /\ loop_i >= Size(keys)
    /\ decrypted' = Join(Bits, half_l, half_r)
    /\ pc' = "done"
    /\ UNCHANGED <<solverVars, detectVars, oracleVars, loop_i, input, keys, round_function,
                   half_l, half_r,
                   encrypted>>

FeistelNext == EncryptStep \/ EncryptReturn \/ DecryptStep \/ DecryptReturn

SpecFeistel == FeistelInit /\ [][FeistelNext]_vars

----------------------------------------------------------------------------
(* run_feistel_tests and run_feistel_detect (src/main.cpp).                *)

\* size_t arithmetic wraps around.  The model wraps at 2^30, far above every
\* value the loop counter of run_feistel_detect takes.
SizeModulus == 1073741824

\* --i that stops at 0.
Decrement_Saturating(n) == IF n = 0 THEN 0 ELSE n - 1

\* --i
Decrement(n) == (n - 1) % SizeModulus

\* ++i in arithmetic that does not wrap.
Increment_NoWrap(n) == n + 1

\* ++i
Increment(n) == (n + 1) % SizeModulus

\* The loop condition with the budget of Bits passes.
LoopContinues_HalfBudget(n) == n < Bits

\* The loop condition i < 2*Bits.
LoopContinues(n) == n < 2 * Bits

\* The rank test that any independent row passes.
FullRank_AnyRank(n) == n >= 1

\* The rank test independent_rows == Bits.
FullRank(n) == n = Bits

\* The lines run_feistel_detect prints.
SolvedLine == "3-round Feistel (solved equation)"

RandomLine == "Random permutation"

BudgetLine == "3-round Feistel (more than 2n equations attempted)"

\* The comparison whose else branch prints nothing.
Verdict_Silent(fu, fus) == IF fu = fus THEN SolvedLine ELSE ""

\* The comparison with the two lines exchanged.
Verdict_Exchanged(fu, fus) == IF fu = fus THEN RandomLine ELSE SolvedLine

\* if(f_u == f_u_s) ... else ...
Verdict(fu, fus) == IF fu = fus THEN SolvedLine ELSE RandomLine

\* generate_permuation_map(max, permutations): the tables the swaps can
\* leave, x and y any two positions (x = y swaps nothing).
RECURSIVE generate_permuation_map(_, _)
generate_permuation_map(max, permutations) ==
    IF permutations = 0 THEN {Array([n \in 0..(max - 1) |-> n], max)}
    ELSE {Swap(m, x, y) : m \in generate_permuation_map(max, permutations - 1),
                          x \in 0..(max - 1), y \in 0..(max - 1)}

\* The round function of run_feistel_tests,
\* feistel_permutation_map[input ^ key], as the table of its values.
PermutationRound(B, feistel_permutation_map) ==
    [q \in (0..(Pow2(B) - 1)) \X KeySet |-> feistel_permutation_map[BitXor(q[1], q[2])]]

\* The functions feistel_function that run_feistel_tests can build from
\* the given permutation maps.
FeistelFunctions(B, maps) ==
    { make_feistel_encrypt(B, PermutationRound(B, m), ks) :
        m \in maps, ks \in [0..(Rounds - 1) -> KeySet] }

\* The lambda function of run_feistel_detect.
function(in) == run_f(Bits, in, internal_callback, ALPHA, BETA)

\* The inputs of the lambda function: Bits + 1 bits.
ProbeInputs == 0..(Pow2(Bits + 1) - 1)

\* The lambda function as the table of its values, which is what
\* bitflip_oracle reads off it.
FunctionTable == Array([x \in ProbeInputs |-> function(x)], Pow2(Bits + 1))

\* The amplitude, up to scale, of |y>|v> before run_simon measures: the
\* Hadamards put the first register in the uniform superposition, the
\* bitflip oracle of fn writes fn(x) to the second, and the second round of
\* Hadamards gives |y>|v> the sum of (-1)^(x.y) over the x with fn(x) = v.
Amplitude(fn, y, v) ==
    LET preimage == {x \in DOMAIN fn : fn[x] = v}
    IN  Cardinality(preimage) - 2 * Cardinality({x \in preimage : BitDot(x, y) = 1})

\* run_simon<Bits + 1, Bits>(oracle).first, oracle the bitflip oracle of
\* fn: the values the measurement of the first register can return.
run_simon(fn) ==
    {y \in DOMAIN fn : \E v \in 0..(Pow2(Bits) - 1) : Amplitude(fn, y, v) # 0}

\* run_feistel_detect at the head of its loop: ALPHA and BETA drawn, the
\* solver constructed, i = 0.
DetectEntry(callbacks) ==
    /\ Width = Bits
    /\ SolverInit
    /\ FeistelIdle
    /\ OracleIdle
    /\ internal_callback \in callbacks
    /\ ALPHA \in 0..(Pow2(Bits) - 1)
    /\ BETA \in 0..(Pow2(Bits) - 1)
    /\ loop_i = 0
    /\ s_solved = 0
    /\ u_drawn = 0
    /\ f_u = 0
    /\ f_u_s = 0
    /\ verdict = ""
    /\ rejected = 0

\* run_feistel_detect<BITS>(feistel_function)
DetectInit ==
    /\ DetectEntry(FeistelFunctions(Bits, generate_permuation_map(Pow2(Bits), MaxSwaps)))
    /\ pc = "sampling"

\* One pass through the try block up to the rank test: run_simon, addRow,
\* getIndependent.  A runtime_error lands in the catch block, --i, and the
\* loop's ++i follows.
Sample ==
    /\ pc = "sampling"
    /\ LoopContinues(loop_i)
    /\ \E j \in run_simon(FunctionTable) :
         \E a \in {addRowEncoded(Bits, Solver, j)} :
             /\ independent_rows' = a.this.independent_rows
             /\ contents' = a.this.contents
             /\ targets' = a.this.targets
             /\ last' = [NoCall EXCEPT !.op = "addRow", !.thrown = a.thrown, !.arg = j]
             /\ submitted' = Append(submitted, j)
             /\ outcomes' = Append(outcomes, AddRowOutcome(Solver, a))
             /\ a.thrown => rejected < MaxRejected
             /\ IF a.thrown
                THEN /\ loop_i' = Increment(Decrement(loop_i))
                     /\ pc' = pc
                     /\ rejected' = rejected + 1
                ELSE IF FullRank(getIndependent(a.this))
                THEN /\ loop_i' = loop_i
                     /\ pc' = "solving"
                     /\ rejected' = rejected
                ELSE /\ loop_i' = Increment(loop_i)
                     /\ pc' = pc
                     /\ rejected' = rejected
    /\ UNCHANGED <<Width, feistelVars, oracleVars, internal_callback, ALPHA, BETA, s_solved,
                   u_drawn,
                   f_u, f_u_s, verdict>>

\* size_t s = solver.solveEncoded(); a runtime_error lands in the catch
\* block as above.
SolveSecret ==
    /\ pc = "solving"
    /\ \E e \in {solveEncoded(Bits, Solver)} :
         /\ independent_rows' = e.this.independent_rows
         /\ contents' = e.this.contents
         /\ targets' = e.this.targets
         /\ last' = [NoCall EXCEPT !.op = "solveEncoded", !.thrown = e.thrown,
                                   !.result = e.solution, !.encoded = e.result,
                                   !.again = Returned(last)]
         /\ IF e.thrown
            THEN /\ loop_i' = Increment(Decrement(loop_i))
                 /\ pc' = "sampling"
                 /\ s_solved' = s_solved
            ELSE /\ loop_i' = loop_i
                 /\ pc' = "verifying"
                 /\ s_solved' = e.result
    /\ UNCHANGED <<Width, submitted, outcomes, feistelVars, oracleVars, internal_callback,
                   ALPHA, BETA,
                   u_drawn, f_u, f_u_s, verdict, rejected>>

\* u drawn, f_u and f_u_s compared, the verdict printed.
Verify ==
    /\ pc = "verifying"
    /\ \E u \in ProbeInputs :
         /\ u_drawn' = u
         /\ f_u' = function(u)
         /\ f_u_s' = function(BitXor(u, s_solved))
    /\ verdict' = Verdict(f_u', f_u_s')
    /\ pc' = "done"
    /\ UNCHANGED <<solverVars, loop_i, feistelVars, oracleVars, internal_callback, ALPHA, BETA,
                   s_solved,
                   rejected>>

\* The loop ends with i = 2 * Bits.
Exhausted ==
    /\ pc = "sampling"
    /\ ~LoopContinues(loop_i)
    /\ verdict' = BudgetLine
    /\ pc' = "done"
    /\ UNCHANGED <<solverVars, loop_i, feistelVars, oracleVars, internal_callback, ALPHA, BETA,
                   s_solved, u_drawn, f_u, f_u_s, rejected>>

DetectNext == Sample \/ SolveSecret \/ Verify \/ Exhausted

SpecDetect == DetectInit /\ [][DetectNext]_vars

\* The entries the swaps that build random_permutation_map touch: two
\* blocks that differ in both halves.
SwapPositions(B) == {0, Pow2(B) + 1}

\* The functions random_function that run_feistel_tests can build:
\* random_permutation_map[input], the map generate_permuation_map leaves
\* after at most the given number of swaps, x and y among the positions.
RECURSIVE random_permutation_maps(_, _, _)
random_permutation_maps(max, permutations, positions) ==
    IF permutations = 0 THEN {Array([n \in 0..(max - 1) |-> n], max)}
    ELSE {Swap(m, x, y) : m \in random_permutation_maps(max, permutations - 1, positions),
                          x \in positions, y \in positions}

\* run_feistel_detect<BITS>(random_function)
RandomInit ==
    /\ DetectEntry(random_permutation_maps(Pow2(2 * Bits), MaxSwaps, SwapPositions(Bits)))
    /\ pc = "sampling"

SpecRandom == RandomInit /\ [][DetectNext]_vars

----------------------------------------------------------------------------
(* run_f (include/feistel.hpp) on a 3-round Feistel oracle over any round  *)
(* table, applied to one input.                                            *)

\* The tables of half blocks: any function from half blocks to half blocks.
HalfBlockTables(B) == [0..(Pow2(B) - 1) -> 0..(Pow2(B) - 1)]

\* The oracle is a 3-round Feistel encryption whose round function looks
\* its value up in any table of half blocks.
ProbeInit ==
    /\ DetectEntry(FeistelFunctions(Bits, HalfBlockTables(Bits)))
    /\ pc = "probe"

\* size_t f_u = function(u)
Probe ==
    /\ pc = "probe"
    /\ \E u \in ProbeInputs :
         /\ u_drawn' = u
         /\ f_u' = function(u)
    /\ pc' = "probed"
    /\ UNCHANGED <<solverVars, loop_i, feistelVars, oracleVars, internal_callback, ALPHA, BETA,
                   s_solved, f_u_s, verdict, rejected>>

SpecProbe == ProbeInit /\ [][Probe]_vars

----------------------------------------------------------------------------
(* src/main.cpp: bitflip_oracle and create_toggle_if_match, on a register  *)
(* in a classical basis state; bit k of x_y is qubit k.                    *)

\* quantum_sigma_x(target, reg): the NOT gate on one qubit.
quantum_sigma_x(target, reg) == BitXor(reg, Pow2(target))

\* quantum_unbounded_toffoli(controlling, reg, c_1, ..., c_n, target): the
\* target qubit is flipped when every controlling qubit is 1.
quantum_unbounded_toffoli(controls, target, reg) ==
    IF \A c \in controls : Bit(reg, c) = 1 THEN BitXor(reg, Pow2(target)) ELSE reg

\* create_masked_toffoli_runtime<N>(mask, target_register, target_bit,
\* offset): the entry of the lookup table for mask, which registers nothing
\* for mask 0 and else a toffoli controlled by the bits j + offset with bit
\* j of mask set.
create_masked_toffoli_runtime(N, mask, reg, target_bit, offset) ==
    IF mask = 0 THEN reg
    ELSE quantum_unbounded_toffoli({j + offset : j \in {k \in 0..(N - 1) : Bit(mask, k) = 1}},
                                   target_bit, reg)

\* for(i = 0; i < N; ++i) if(!(value & (1ull << i))) quantum_sigma_x(offset + i, x),
\* from iteration i on.
RECURSIVE FlipZeroBits(_, _, _, _, _)
FlipZeroBits(N, value, reg, offset, i) ==
    IF i >= N THEN reg
    ELSE FlipZeroBits(N, value,
                      IF Bit(value, i) = 0 THEN quantum_sigma_x(offset + i, reg) ELSE reg,
                      offset, i + 1)

\* create_toggle_if_match without the cleanup loop.
create_toggle_if_match_NoCleanup(N, value, reg, target, offset) ==
    create_masked_toffoli_runtime(N, Pow2(N) - 1, FlipZeroBits(N, value, reg, offset, 0),
                                  target, offset)

\* create_toggle_if_match<N>(value, x, target, offset)
create_toggle_if_match(N, value, reg, target, offset) ==
    FlipZeroBits(N, value,
                 create_masked_toffoli_runtime(N, Pow2(N) - 1,
                                               FlipZeroBits(N, value, reg, offset, 0),
                                               target, offset),
                 offset, 0)

\* The instantiations bitflip_oracle<N, M>, as <<N, M>>.
OracleShapes == {<<1, 2>>, <<2, 1>>, <<2, 2>>}

\* bitflip_oracle<N, M>(x_y, function) is called: any classical function on
\* [0, 2^N), its values up to one past the M output bits, and the register
\* in any basis state.
OracleInit ==
    /\ Width = Bits
    /\ SolverInit
    /\ FeistelIdle
    /\ DetectIdle
    /\ loop_i = 0
    /\ \E shape \in OracleShapes :
         /\ oracle_N = shape[1]
         /\ oracle_M = shape[2]
    /\ oracle_function \in [0..(Pow2(oracle_N) - 1) -> 0..Pow2(oracle_M)]
    /\ x_y \in 0..(Pow2(oracle_N + oracle_M) - 1)
    /\ x_y_before = x_y
    /\ oracle_i = 0
    /\ oracle_j = 0
    /\ oracle_result = 0
    /\ registered = <<>>
    /\ pc = "oracle_input"

\* for(i = 0; i < num_posibilities; ++i): size_t result = function(i), and
\* the inner loop starts.
OracleInput ==
    /\ pc = "oracle_input"
    /\ oracle_i < Pow2(oracle_N)
    /\ oracle_result' = oracle_function[oracle_i]
    /\ oracle_j' = 0
    /\ pc' = "oracle_bits"
    /\ UNCHANGED <<solverVars, loop_i, feistelVars, detectVars, oracle_N, oracle_M,
                   oracle_function, x_y, x_y_before, oracle_i, registered>>

\* One iteration of for(j = 0; j < M; ++j).
OracleBit ==
    /\ pc = "oracle_bits"
    /\ oracle_j < oracle_M
    /\ IF Bit(oracle_result, oracle_j) = 1
       THEN /\ x_y' = create_toggle_if_match(oracle_N, oracle_i, x_y, oracle_j + oracle_N, 0)
            /\ registered' = Append(registered, <<oracle_i, oracle_j + oracle_N>>)
       ELSE UNCHANGED <<x_y, registered>>
    /\ oracle_j' = oracle_j + 1
    /\ UNCHANGED <<solverVars, pc, loop_i, feistelVars, detectVars, oracle_N, oracle_M,
                   oracle_function, x_y_before, oracle_i, oracle_result>>

\* The inner loop ends, ++i.
OracleNextInput ==
    /\ pc = "oracle_bits"
    /\ oracle_j >= oracle_M
    /\ oracle_i' = oracle_i + 1
    /\ pc' = "oracle_input"
    /\ UNCHANGED <<solverVars, loop_i, feistelVars, detectVars, oracle_N, oracle_M,
                   oracle_function, x_y, x_y_before, oracle_j, oracle_result, registered>>

\* The outer loop ends and bitflip_oracle returns.
OracleReturn ==
    /\ pc = "oracle_input"
    /\ oracle_i >= Pow2(oracle_N)
    /\ pc' = "oracle_done"
    /\ UNCHANGED <<solverVars, loop_i, feistelVars, detectVars, oracleVars>>

OracleNext == OracleInput \/ OracleBit \/ OracleNextInput \/ OracleReturn

SpecOracle == OracleInit /\ [][OracleNext]_vars

----------------------------------------------------------------------------
(* GF(2) linear algebra in which the solver's claims are stated.  An       *)
(* encoded equation e has target bit 0 and coefficient i at bit i+1.       *)

BitVectors(W) == [0..(W - 1) -> BOOLEAN]

EqCoeffs(W, e) == [i \in 0..(W - 1) |-> Bit(e, i + 1) = 1]

EqTarget(e) == Bit(e, 0) = 1

\* TRUE iff an odd number of the elements of S satisfy P.
Odd(n) == n % 2 = 1

\* coefficients . x (mod 2), as a bit
Dot(c, x) == Odd(Cardinality({i \in DOMAIN c : c[i] /\ x[i]}))

\* x satisfies the encoded equation e
SatisfiesEq(W, x, e) == Dot(EqCoeffs(W, e), x) = EqTarget(e)

\* The GF(2) sum of the rows rows[m], m \in M.
XorOf(W, rows, M) == [i \in 0..(W - 1) |-> Odd(Cardinality({m \in M : rows[m][i]}))]

\* The GF(2) sum of the targets tg[m], m \in M.
XorTargets(tg, M) == Odd(Cardinality({m \in M : tg[m]}))

ZeroRow(W) == [i \in 0..(W - 1) |-> FALSE]

\* The rows rows[d], d \in D, are linearly independent as a set.
LinearlyIndependent(W, rows, D) ==
    \A M \in (SUBSET D) \ {{}} : XorOf(W, rows, M) # ZeroRow(W)

\* Every two of the rows rows[d], d \in D, are linearly independent.
PairwiseIndependent(W, rows, D) ==
    \A a, b \in D : a # b => LinearlyIndependent(W, rows, {a, b})

\* The coefficient rows of the submitted equations, indexed 1..Len(submitted).
SubmittedRows == [k \in 1..Len(submitted) |-> EqCoeffs(Width, submitted[k])]

\* Some vector satisfies every submitted equation.
MutuallyConsistent ==
    \E x \in BitVectors(Width) : \A k \in 1..Len(submitted) : SatisfiesEq(Width, x, submitted[k])

\* The equation (c, t) contradicts the independent prefix of the solver:
\* c is a combination of the prefix rows, t is not that combination of
\* their targets.  M = {} is the all-zero row with target 1.
Contradicts(c, t) ==
    \E M \in SUBSET (0..(independent_rows - 1)) :
        /\ XorOf(Width, contents, M) = c
        /\ XorTargets(targets, M) # t

\* The step is a call of addRow.
IsAddRow == Len(submitted') = Len(submitted) + 1

\* The step is a call of solve() or solveEncoded().
IsSolve == last'.op \in SolveOps /\ submitted' = submitted

\* The vectors that satisfy the first n stored equations.
PrefixSolutions(W, c, t, n) ==
    {x \in BitVectors(W) : \A j \in 0..(n - 1) : Dot(c[j], x) = t[j]}

\* The first n stored rows are upper triangular with a unit diagonal.
UnitUpperTriangular(c, n) ==
    \A j \in 0..(n - 1) : c[j][j] /\ \A k \in 0..(j - 1) : ~c[j][k]

----------------------------------------------------------------------------
(* Claims about MatrixSolver, checked under Spec.                          *)

\* C2: over any sequence of addRow calls (throwing ones included) and
\* solve calls, getIndependent() never decreases and never exceeds Width.
C2_RankMonotoneBounded ==
    /\ [](getIndependent(Solver) <= Width)
    /\ [][independent_rows' >= independent_rows]_vars

\* C2 happens: an addRow threw on a full-rank solver that solve() had
\* already rewritten, and the rank is still Width.
C2_Witness ==
    /\ last.op = "addRow" /\ last.thrown
    /\ independent_rows = Width
    /\ Len(submitted) > Width
    /\ UnitUpperTriangular(contents, Width)
    /\ \E k \in 1..Width : EqCoeffs(Width, submitted[k]) # contents[k - 1]

\* C3 as stated: Width pairwise independent, mutually consistent equations
\* added to an empty solver give rank Width.
C3_PairwiseIndependentFullRank ==
    (/\ Len(submitted) = Width
     /\ PairwiseIndependent(Width, SubmittedRows, 1..Width)
     /\ MutuallyConsistent)
    => independent_rows = Width

\* C3 amended: Width equations whose coefficient rows are linearly
\* independent as a set, added to an empty solver, give rank Width with no
\* error, and a following solve() returns a vector that satisfies every
\* submitted equation.
C3_IndependentSetFullRank ==
    (/\ Len(submitted) = Width
     /\ LinearlyIndependent(Width, SubmittedRows, 1..Width))
    => /\ independent_rows = Width
       /\ ~last.thrown
       /\ last.op \in SolveOps =>
            \A k \in 1..Width : SatisfiesEq(Width, last.result, submitted[k])

\* C3 happens: three independent equations, not already triangular, solved.
C3_Witness ==
    /\ Width = 3
    /\ Len(submitted) = Width
    /\ LinearlyIndependent(Width, SubmittedRows, 1..Width)
    /\ ~UnitUpperTriangular([j \in 0..(Width - 1) |-> SubmittedRows[j + 1]], Width)
    /\ last.op = "solve" /\ ~last.thrown
    /\ \A k \in 1..Width : SatisfiesEq(Width, last.result, submitted[k])

\* C4: an addRow whose equation contradicts the independent prefix throws
\* and leaves getIndependent() as it was.
C4_ContradictionRejected ==
    [][(IsAddRow /\ Contradicts(EqCoeffs(Width, last'.arg), EqTarget(last'.arg)))
        => (last'.thrown /\ independent_rows' = independent_rows)]_vars

\* C4 happens: a nonzero coefficient row that is the sum of two stored
\* rows, with the wrong target, was rejected.
C4_Witness ==
    /\ last.op = "addRow" /\ last.thrown
    /\ independent_rows >= 2
    /\ \E M \in SUBSET (0..(independent_rows - 1)) :
         /\ Cardinality(M) = 2
         /\ XorOf(Width, contents, M) = EqCoeffs(Width, last.arg)
         /\ XorTargets(targets, M) # EqTarget(last.arg)

\* C5: a solve() that follows a solve() that returned, with no addRow in
\* between, returns the same vector.
C5_SolveTwiceSame ==
    [][(Returned(last) /\ IsSolve) => (Returned(last') /\ last'.result = last.result)]_vars

\* C5 happens: solve() returned for the second time in a row, on a solver
\* whose equations the first solve() had to rewrite.
C5_Witness ==
    /\ last.op = "solve" /\ ~last.thrown /\ last.again
    /\ \E k \in 1..Len(submitted) : \A j \in 0..(Width - 1) :
         EqCoeffs(Width, submitted[k]) # contents[j]

\* C6 as stated: solve() on a full-rank solver leaves the stored rows, their
\* order, the targets and the rank as they were.
C6_SolveLeavesEquations ==
    [][(IsSolve /\ Returned(last'))
        => (contents' = contents /\ targets' = targets /\ independent_rows' = independent_rows)]_vars

\* C6 amended: solve() on a full-rank solver leaves the rank, the number of
\* stored equations and every row at an index >= rank as they were; the
\* first Width rows and targets are rewritten in place into a unit upper
\* triangular system with the same solution, and are left as they were
\* when they already have that form.
C6_SolveRewritesPrefixOnly ==
    [][(IsSolve /\ Returned(last'))
        => /\ independent_rows' = independent_rows
           /\ DOMAIN contents' = DOMAIN contents
           /\ DOMAIN targets' = DOMAIN targets
           /\ \A j \in DOMAIN contents : j >= independent_rows =>
                (contents'[j] = contents[j] /\ targets'[j] = targets[j])
           /\ UnitUpperTriangular(contents', Width)
           /\ PrefixSolutions(Width, contents', targets', Width)
                = PrefixSolutions(Width, contents, targets, Width)
           /\ UnitUpperTriangular(contents, Width) =>
                (contents' = contents /\ targets' = targets)]_vars

\* C6 happens: solve() returned on a solver that also stores a rejected
\* row, and the stored prefix is no longer the submitted equations.
C6_Witness ==
    /\ Returned(last) /\ ~last.again
    /\ Size(contents) > independent_rows
    /\ \E k \in 1..Len(submitted) : \A j \in DOMAIN contents :
         EqCoeffs(Width, submitted[k]) # contents[j]

\* C7: solve() and solveEncoded() throw whenever getIndependent() # Width,
\* and then leave the stored equations, targets and rank as they were.
C7_UnderdeterminedThrows ==
    [][(IsSolve /\ getIndependent(Solver) # Width)
        => (last'.thrown /\ contents' = contents /\ targets' = targets
            /\ independent_rows' = independent_rows)]_vars

\* C7 happens: solveEncoded() threw on a solver of rank Width - 1 whose
\* rows elimination would have changed.
C7_Witness ==
    /\ last.op = "solveEncoded" /\ last.thrown
    /\ independent_rows = Width - 1
    /\ ~UnitUpperTriangular(contents, independent_rows)

\* The scenario of C8: 0b0110, 0b0101, 0b1001.
ScenarioEquations == {6, 5, 9}

\* C8: with Width 3, the equations 0b0110, 0b0101, 0b1001 in any order
\* bring the rank to 3 with no error; solve() returns x0 = x1 = x2 = 1,
\* the vector whose dot products match the targets, and solveEncoded()
\* returns 0b1111.
C8_LiteralScenario ==
    (/\ Width = 3
     /\ {submitted[k] : k \in 1..Len(submitted)} \subseteq ScenarioEquations
     /\ Cardinality({submitted[k] : k \in 1..Len(submitted)}) = Len(submitted))
    => /\ independent_rows = Len(submitted)
       /\ last.op = "addRow" => ~last.thrown
       /\ (Len(submitted) = 3 /\ last.op \in SolveOps) =>
            /\ ~last.thrown
            /\ last.result = [i \in 0..2 |-> TRUE]
            /\ \A e \in ScenarioEquations : SatisfiesEq(3, last.result, e)
            /\ \A x \in BitVectors(3) :
                 (\A e \in ScenarioEquations : SatisfiesEq(3, x, e)) => x = last.result
            /\ last.op = "solveEncoded" => last.encoded = 15

\* C8 happens: the three equations were submitted as 0b1001, 0b0101,
\* 0b0110 and solveEncoded() returned 0b1111.
C8_Witness ==
    /\ Width = 3
    /\ submitted = <<9, 5, 6>>
    /\ last.op = "solveEncoded" /\ last.encoded = 15

----------------------------------------------------------------------------
(* Claims about the Feistel routines, checked under SpecFeistel.           *)

\* Every value the round function returned in this run is a half block.
RoundFunctionInRange ==
    \A q \in DOMAIN round_function : round_function[q] < Pow2(Bits)

\* C1 as stated: for every input below 2^(2*Bits), every round function and
\* every key sequence, decrypt(encrypt(x, f, keys), f, keys) = x.
C1_RoundTripAnyFunction == pc = "done" => decrypted = input

\* C1 amended: the same for every round function whose values lie in
\* [0, 2^Bits), whatever else is true of it.
C1_RoundTripHalfBlockFunction ==
    (pc = "done" /\ RoundFunctionInRange) => decrypted = input

\* C1 happens: a round trip through a round function that is constant on
\* three different arguments (so not injective), under keys that are not all
\* the same, with a ciphertext that differs from the input.
C1_Witness ==
    /\ pc = "done"
    /\ RoundFunctionInRange
    /\ decrypted = input
    /\ encrypted # input
    /\ keys[0] # keys[2]
    /\ Cardinality(DOMAIN round_function) = 3
    /\ \A p, q \in DOMAIN round_function : round_function[p] = round_function[q]

----------------------------------------------------------------------------
(* Claims about the probe and the detection.                               *)

\* The secret strings a probe can have: nonzero, selector bit set.
SelectorStrings == {p \in ProbeInputs : p % 2 = 1}

\* p is a period of fn.
Period(fn, p) == \A u \in DOMAIN fn : fn[u] = fn[BitXor(u, p)]

\* The secret string of the probe of a 3-round Feistel network with round
\* functions F1, F2, F3: ((F1(ALPHA) ^ F1(BETA)) << 1) | 1.  F1(x) is read
\* off the oracle: the low half of the encryption of (a, x) is
\* F3(..) ^ a ^ F1(x), so F1(ALPHA) ^ F1(BETA) is the one d for which the
\* probe at (a ^ d, 1) equals the probe at (a, 0).
SecretStrings(fn) == {p \in SelectorStrings : Period(fn, p)}

\* C9: under SpecProbe (the oracle a 3-round Feistel encryption over any
\* round table with values in [0, 2^Bits), any three keys, any ALPHA and
\* BETA) there is a nonzero s below 2^(Bits+1) with low bit 1 such that
\* run_f(u) = run_f(u XOR s) for every u below 2^(Bits+1); in particular for
\* the u the probe was applied to.
C9_ProbeHasSelectorPeriod ==
    pc = "probed" =>
        \A fn \in {FunctionTable} :
            \E p \in SelectorStrings :
                /\ Period(fn, p)
                /\ f_u = fn[u_drawn]
                /\ f_u = fn[BitXor(u_drawn, p)]

\* C9 happens: a probe that is not constant, over distinct ALPHA and BETA,
\* whose only selector period is not 1, applied to an input.
C9_Witness ==
    /\ pc = "probed"
    /\ ALPHA # BETA
    /\ \E u \in ProbeInputs : function(u) # f_u
    /\ SecretStrings(FunctionTable) # {}
    /\ 1 \notin SecretStrings(FunctionTable)
    /\ f_u # function(BitXor(u_drawn, 1))

\* The samples that meet the sampling contract: y . s = 0 (mod 2) for every
\* secret string s in secrets.
ContractSamples(secrets) ==
    {y \in ProbeInputs : \A p \in secrets : BitDot(y, p) = 0}

\* C10: under SpecDetect (the oracle a genuine 3-round Feistel network, any
\* ALPHA and BETA, any u) the samples run_simon can return are exactly those
\* that meet the sampling contract, y . s = 0 (mod 2) for the probe's secret
\* string s, and whatever their sequence no call of the solver throws and
\* run_feistel_detect never prints "Random permutation".
C10_FeistelNeverRandom ==
    /\ verdict # RandomLine
    /\ ~last.thrown
    /\ pc = "sampling" =>
          \A fn \in {FunctionTable} :
              \A secrets \in {SecretStrings(fn)} :
                  /\ Cardinality(secrets) = 1
                  /\ run_simon(fn) = ContractSamples(secrets)

\* C10 happens: a run that sampled a dependent equation on the way, solved
\* for a secret string other than 1 and verified it.
C10_Witness ==
    /\ pc = "done"
    /\ verdict = SolvedLine
    /\ Size(contents) > Bits
    /\ s_solved # 1
    /\ s_solved \in SecretStrings(FunctionTable)
    /\ BitXor(u_drawn, s_solved) # u_drawn

----------------------------------------------------------------------------
(* Claims about run_feistel_detect on any oracle, checked under SpecRandom.*)

\* The number of samples addRow took without error.
Accepted == Size(submitted) - rejected

StepsToDone ==
    IF pc = "done" THEN 0
    ELSE IF pc = "verifying" THEN 1
    ELSE IF pc = "solving" THEN 2
    ELSE 3 + (2 * Bits - loop_i)

C12_BudgetCountsAcceptedSamples ==
    /\ [](/\ pc = "sampling" => loop_i = Accepted
          /\ loop_i <= 2 * Bits
          /\ Accepted <= 2 * Bits)
    /\ [][rejected' > rejected =>
            /\ last'.op = "addRow" /\ last'.thrown
            /\ loop_i' = loop_i
            /\ pc' = "sampling"
            /\ verdict' = ""]_vars

\* C12 happens: the first sample of a run was rejected, at i = 0.
C12_Witness ==
    /\ Size(submitted) = 1
    /\ rejected = 1
    /\ last.op = "addRow"
    /\ last.thrown
    /\ loop_i = 0
    /\ pc = "sampling"

\* C13: the budget verdict is the normal end of a run in which 2*Bits
\* samples were accepted and the rank stayed below Bits: from Sampling with
\* 2*Bits accepted samples the run goes to Done with the budget line, and a
\* run that printed the budget line has called neither solveEncoded nor the
\* verification (s, u, f_u and f_u_s were never assigned, the solver's last
\* call is an addRow that returned).
C13_BudgetVerdictWithoutSolve ==
    /\ [](verdict = BudgetLine =>
            /\ pc = "done"
            /\ Accepted = 2 * Bits
            /\ independent_rows < Bits
            /\ last.op = "addRow" /\ ~last.thrown
            /\ s_solved = 0 /\ u_drawn = 0 /\ f_u = 0 /\ f_u_s = 0)
    /\ [][(pc = "sampling" /\ Accepted = 2 * Bits) =>
            /\ pc' = "done"
            /\ verdict' = BudgetLine
            /\ UNCHANGED <<solverVars, s_solved, u_drawn, f_u, f_u_s>>]_vars
    /\ [][(pc = "sampling" /\ Accepted < 2 * Bits) => verdict' = ""]_vars

\* C13 happens: a run ended on the budget line with a sample that brought
\* a new equation among its 2*Bits accepted ones.
C13_Witness ==
    /\ verdict = BudgetLine
    /\ independent_rows > 0
    /\ Accepted = 2 * Bits

\* C14: as soon as an accepted sample brings the rank to Bits the run draws
\* no further sample: it solves for s, draws one u in [0, 2^(Bits+1)) and
\* ends with the solved-equation line if run_f(u) = run_f(u XOR s) and with
\* the random-permutation line otherwise; the random-permutation line is
\* printed on no other path.
C14_FullRankSolvesAndVerifies ==
    /\ [](independent_rows = Bits => pc \in {"solving", "verifying", "done"})
    /\ [](verdict = RandomLine =>
            /\ pc = "done"
            /\ independent_rows = Bits
            /\ last.op = "solveEncoded" /\ ~last.thrown
            /\ s_solved = last.encoded
            /\ f_u # f_u_s)
    /\ [][independent_rows = Bits => submitted' = submitted]_vars
    /\ [][(independent_rows' = Bits /\ independent_rows # Bits) =>
            /\ pc = "sampling" /\ pc' = "solving"
            /\ ~last'.thrown]_vars
    /\ [][pc = "solving" =>
            /\ pc' = "verifying"
            /\ s_solved' = solveEncoded(Bits, Solver).result]_vars
    /\ [][pc = "verifying" =>
            /\ pc' = "done"
            /\ u_drawn' \in 0..(Pow2(Bits + 1) - 1)
            /\ f_u' = run_f(Bits, u_drawn', internal_callback, ALPHA, BETA)
            /\ f_u_s' = run_f(Bits, BitXor(u_drawn', s_solved), internal_callback,
                              ALPHA, BETA)
            /\ verdict' = (IF f_u' = f_u_s' THEN SolvedLine ELSE RandomLine)]_vars

\* C14 happens: a run reached full rank, solved for an s other than 1 and
\* found run_f(u) different from run_f(u XOR s).
C14_Witness ==
    /\ verdict = RandomLine
    /\ independent_rows = Bits
    /\ s_solved > 1
    /\ f_u # f_u_s

\* C15: run_feistel_detect calls solveEncoded only when getIndependent() is
\* Bits, so that the call never throws the error of an underdetermined
\* system: every call of it in a run returns, and the only calls that throw
\* in a run are calls of addRow.
C15_SolveOnlyAtFullRank ==
    /\ [](pc = "solving" => getIndependent(Solver) = Bits)
    /\ [](last.op \in SolveOps => (~last.thrown /\ independent_rows = Bits))
    /\ [](last.thrown => last.op = "addRow")
    /\ [][last'.op \in SolveOps =>
            (pc = "solving" /\ independent_rows = Bits) \/ last' = last]_vars

\* C15 happens: solveEncoded returned in a run that had accepted a
\* redundant sample and seen a rejected one before the rank reached Bits.
C15_Witness ==
    /\ last.op = "solveEncoded"
    /\ ~last.thrown
    /\ Size(contents) > Bits + 1
    /\ rejected > 0

\* The lines that report Feistel and the line that reports RandomPermutation.
FeistelLines == {SolvedLine, BudgetLine}

\* C17: a run that has ended has printed exactly one verdict, Feistel (one
\* of its two lines) or RandomPermutation, and a run that has not ended has
\* printed none: Done is never reached without one of the two.  No error
\* escapes run_feistel_detect: a call that throws leaves the run in
\* Sampling, without a verdict, and once a verdict is printed no step
\* follows.
C17_ExactlyOneVerdict ==
    /\ [](pc = "done" <=> verdict \in FeistelLines \cup {RandomLine})
    /\ [](pc # "done" <=> verdict = "")
    /\ [](last.thrown => (pc = "sampling" /\ verdict = ""))
    /\ [][verdict = "" /\ pc' \in {"sampling", "solving", "verifying", "done"}]_vars

\* C17 happens: a run in which addRow threw has ended with the verdict
\* RandomPermutation.
C17_Witness ==
    /\ pc = "done"
    /\ verdict = RandomLine
    /\ rejected > 0

----------------------------------------------------------------------------
(* Further claims about MatrixSolver, checked under Spec.                  *)

\* The strings s with low bit 1 that every sample submitted so far meets:
\* y . s = 0 (mod 2).
ContractStrings ==
    {p \in 0..(Pow2(Width + 1) - 1) :
        /\ p % 2 = 1
        /\ \A k \in DOMAIN submitted : BitDot(submitted[k], p) = 0}

\* C16: when every sample y handed to addRow satisfies y . s = 0 (mod 2)
\* for one fixed s with low bit 1, as the samples of a genuine Feistel
\* oracle do, no addRow throws the inconsistent-equation error, in whatever
\* order and with whatever repetitions the samples come.
C16_ContractSamplesNeverRejected ==
    (ContractStrings # {} /\ last.op = "addRow") => ~last.thrown

\* C16 happens: three samples orthogonal to one s other than 1 were taken,
\* the third a repetition of the first, the second a different one with
\* target bit 1.
C16_Witness ==
    /\ \E p \in ContractStrings : p > 1
    /\ Size(submitted) = 3
    /\ submitted[3] = submitted[1]
    /\ submitted[2] # submitted[1]
    /\ submitted[2] % 2 = 1
    /\ submitted[1] # 0
    /\ last.op = "addRow"
    /\ ~last.thrown

\* The coefficient row c is a GF(2) combination of the rows of the
\* independent prefix of the solver (the empty combination is the zero row).
InPrefixSpan(c) ==
    \E M \in SUBSET (0..(independent_rows - 1)) : XorOf(Width, contents, M) = c

\* c is a combination of the prefix rows and t the same combination of
\* their targets.
FollowsFromPrefix(c, t) ==
    \E M \in SUBSET (0..(independent_rows - 1)) :
        /\ XorOf(Width, contents, M) = c
        /\ XorTargets(targets, M) = t

\* C20: every addRow call ends in exactly one of three ways, decided by the
\* independent prefix before the call: the rank goes up by exactly 1 without
\* error iff the coefficient row is not a combination of the prefix rows;
\* the call is ignored (same rank, no error) iff it is such a combination
\* and the target is the same combination of the prefix targets; the call
\* throws iff it is such a combination and the target differs.
C20_AddRowTrichotomy ==
    [][IsAddRow =>
        \E c \in {EqCoeffs(Width, last'.arg)} : \E t \in {EqTarget(last'.arg)} :
            /\ last'.op = "addRow"
            /\ independent_rows' \in {independent_rows, independent_rows + 1}
            /\ last'.thrown => independent_rows' = independent_rows
            /\ (~last'.thrown /\ independent_rows' = independent_rows + 1)
                  <=> ~InPrefixSpan(c)
            /\ (~last'.thrown /\ independent_rows' = independent_rows)
                  <=> FollowsFromPrefix(c, t)
            /\ last'.thrown <=> Contradicts(c, t)
            /\ ~(FollowsFromPrefix(c, t) /\ Contradicts(c, t))]_vars

\* C20 happens: after a rejected equation and with rank 2, an equation that
\* is the sum of the two prefix equations, target included, was ignored.
C20_Witness ==
    /\ last.op = "addRow" /\ ~last.thrown
    /\ independent_rows = 2
    /\ Size(contents) = 4
    /\ EqCoeffs(Width, last.arg) = XorOf(Width, contents, {0, 1})
    /\ EqTarget(last.arg) = XorTargets(targets, {0, 1})
    /\ \E k \in 1..Len(submitted) :
         /\ EqCoeffs(Width, submitted[k]) = ZeroRow(Width)
         /\ EqTarget(submitted[k])

\* The stored equation at index k.
Stored(c, t, k) == <<c[k], t[k]>>

\* Where an addRow step puts the equations: an independent one at index
\* rank with its target, the equation that was there moved to the end with
\* its target; any other one at the end; every other index as it was.
AddRowPlacement ==
    \E n \in {Size(contents)} : \E r \in {independent_rows} :
        \E eq \in {<<EqCoeffs(Width, last'.arg), EqTarget(last'.arg)>>} :
            /\ Size(contents') = n + 1
            /\ Size(targets') = n + 1
            /\ IF independent_rows' = r + 1
               THEN /\ Stored(contents', targets', r) = eq
                    /\ r < n => Stored(contents', targets', n) = Stored(contents, targets, r)
                    /\ \A k \in 0..(n - 1) :
                         k # r => Stored(contents', targets', k) = Stored(contents, targets, k)
               ELSE /\ independent_rows' = r
                    /\ Stored(contents', targets', n) = eq
                    /\ \A k \in 0..(n - 1) :
                         Stored(contents', targets', k) = Stored(contents, targets, k)

\* C21: in every reachable solver state the first getIndependent() stored
\* rows are linearly independent over GF(2); each stored row keeps its own
\* target (addRow moves row and target together, solve() rewrites the
\* prefix into equations with the same solutions and touches nothing
\* else); every stored row at an index >= getIndependent() is a rejected or
\* redundant one, a combination of the prefix rows, and every rejected or
\* redundant equation is put there.
C21_PrefixIndependent ==
    /\ [](LinearlyIndependent(Width, contents, 0..(independent_rows - 1)))
    /\ [](/\ Size(contents) = Len(submitted)
          /\ Size(targets) = Size(contents)
          /\ independent_rows <= Size(contents))
    /\ [](\A k \in independent_rows..(Size(contents) - 1) : InPrefixSpan(contents[k]))
    /\ [][IsAddRow => AddRowPlacement]_vars
    /\ [][IsSolve =>
            /\ independent_rows' = independent_rows
            /\ Size(contents') = Size(contents)
            /\ PrefixSolutions(Width, contents', targets', independent_rows)
                  = PrefixSolutions(Width, contents, targets, independent_rows)
            /\ \A k \in independent_rows..(Size(contents) - 1) :
                  Stored(contents', targets', k) = Stored(contents, targets, k)]_vars

\* C21 happens: the solver holds two independent rows, the second just
\* added in the place of a rejected equation 0 = 1 that now sits at the end,
\* and a redundant copy of the first row in between.
C21_Witness ==
    /\ independent_rows = 2
    /\ Size(contents) = 4
    /\ last.op = "addRow" /\ ~last.thrown
    /\ Stored(contents, targets, 1) = <<EqCoeffs(Width, last.arg), EqTarget(last.arg)>>
    /\ Stored(contents, targets, 2) = Stored(contents, targets, 0)
    /\ Stored(contents, targets, 3) = <<ZeroRow(Width), TRUE>>

\* The calls of addRow, by their position in the call order, that
\* returned without error.
AcceptedCalls == {k \in 1..Len(submitted) : outcomes[k] # "rejected"}

\* C22: when the rank is Width, solve() returns the one vector x with
\* coefficients . x = target (mod 2) for every equation addRow accepted
\* without error, the redundant ones included, in whatever order the
\* equations came and wherever the rejected ones fell among them.
C22_SolveReturnsUniqueSolution ==
    (last.op \in SolveOps /\ ~last.thrown) =>
        /\ independent_rows = Width
        /\ \A x \in BitVectors(Width) :
              (x = last.result)
                <=> \A k \in AcceptedCalls : SatisfiesEq(Width, x, submitted[k])

\* C22 happens: solve() returned after an independent equation, a rejected
\* one with a nonzero coefficient row, a redundant one and a second
\* independent one, in this order.
C22_Witness ==
    /\ last.op = "solve" /\ ~last.thrown
    /\ outcomes = <<"independent", "rejected", "redundant", "independent">>
    /\ EqCoeffs(Width, submitted[2]) # ZeroRow(Width)
    /\ ~SatisfiesEq(Width, last.result, submitted[2])

\* The equations among the first n submitted ones that addRow took into
\* the independent prefix, in call order: the sequence that is left when
\* the rejected and the redundant equations are removed.
RECURSIVE IndependentOnly(_)
IndependentOnly(n) ==
    IF n = 0 THEN <<>>
    ELSE IF outcomes[n] = "independent"
    THEN Append(IndependentOnly(n - 1), submitted[n])
    ELSE IndependentOnly(n - 1)

\* C23: the rejected and the redundant equations that addRow leaves stored
\* have no effect on what follows: a solver that was given the same
\* equations without the rejected and the redundant ones has the same rank,
\* ends every further addRow in the same way (independent, redundant or
\* rejected) with the same rank after it, and returns the same from solve().
C23_LeftoverRowsHaveNoEffect ==
    [][\E other \in {AddRows(Width, NewSolver, IndependentOnly(Len(submitted)), 1)} :
          /\ getIndependent(other) = independent_rows
          /\ Size(other.contents) = independent_rows
          /\ IsAddRow =>
                \E r \in {addRowEncoded(Width, other, last'.arg)} :
                    /\ AddRowOutcome(other, r) = outcomes'[Len(outcomes')]
                    /\ r.thrown = last'.thrown
                    /\ getIndependent(r.this) = independent_rows'
          /\ IsSolve =>
                \E r \in {solve(Width, other)} :
                    /\ r.thrown = last'.thrown
                    /\ r.result = last'.result]_vars

\* C23 happens: a rejected and a redundant equation came first, then an
\* independent one, and the equation after it, with a nonzero coefficient
\* row, was rejected while three equations were stored behind the prefix.
C23_Witness ==
    /\ last.op = "addRow"
    /\ outcomes = <<"rejected", "redundant", "independent", "rejected">>
    /\ EqCoeffs(Width, submitted[4]) # ZeroRow(Width)
    /\ Size(contents) - independent_rows = 3

\* The solver that was given the submitted equations and on which solve()
\* was never called.
NeverSolved == AddRows(Width, NewSolver, submitted, 1)

\* C24: solve() may be called between addRow calls: after solve() returned
\* the rank is still Width; every later addRow ends as it does on a solver
\* that was given the same equations and never solved (at full rank:
\* ignored as redundant, or the inconsistent-equation error); and every
\* later solve() returns the vector the first one returned, which no later
\* addRow changes.
C24_SolveInterleavedWithAddRow ==
    /\ [](last.op \in SolveOps /\ ~last.thrown => independent_rows = Width)
    /\ [][\E other \in {NeverSolved} :
            /\ getIndependent(other) = independent_rows
            /\ Size(other.contents) = Size(contents)
            /\ IsSolve =>
                  \E r \in {solve(Width, other)} :
                      /\ r.thrown = last'.thrown
                      /\ r.result = last'.result
                      /\ ~r.thrown => independent_rows' = Width
            /\ IsAddRow =>
                  \E r \in {addRowEncoded(Width, other, last'.arg)} :
                      /\ r.thrown = last'.thrown
                      /\ AddRowOutcome(other, r) = outcomes'[Len(outcomes')]
                      /\ getIndependent(r.this) = independent_rows'
                      /\ independent_rows = Width =>
                            /\ outcomes'[Len(outcomes')] \in {"redundant", "rejected"}
                            /\ solve(Width, r.this).result = solve(Width, other).result]_vars

\* C24 happens: an addRow with a nonzero coefficient row threw on a
\* full-rank solver whose prefix an earlier solve() had rewritten.
C24_Witness ==
    /\ last.op = "addRow" /\ last.thrown
    /\ independent_rows = Width
    /\ EqCoeffs(Width, last.arg) # ZeroRow(Width)
    /\ \E k \in 0..(Width - 1) : contents[k] # NeverSolved.contents[k]

----------------------------------------------------------------------------
(* Claims about bitflip_oracle, checked under SpecOracle.                  *)

\* The input register x (qubits 0..N-1) and the output register y (qubits
\* N..N+M-1) of a basis state.
InputRegister(reg) == reg % Pow2(oracle_N)

OutputRegister(reg) == reg \div Pow2(oracle_N)

\* The pairs <<i, N + j>> with bit j of function(i) set, i < bound.
FlipsDue(bound) ==
    {f \in (0..(bound - 1)) \X (oracle_N..(oracle_N + oracle_M - 1)) :
        Bit(oracle_function[f[1]], f[2] - oracle_N) = 1}

\* C18: bitflip_oracle<N, M> registers one conditional flip for exactly the
\* pairs (i, j), i in [0, 2^N), j in [0, M), with bit j of function(i) set;
\* each flips qubit N + j when the input register holds i and nothing
\* otherwise, and leaves the input register as it was; on the basis state
\* (x, y) the registered flips together give (x, y XOR (function(x) mod 2^M)).
C18_OracleFlipsOutputByFunction ==
    /\ [](InputRegister(x_y) = InputRegister(x_y_before))
    /\ [](pc = "oracle_done" =>
            /\ {registered[k] : k \in DOMAIN registered} = FlipsDue(Pow2(oracle_N))
            /\ Len(registered) = Cardinality(FlipsDue(Pow2(oracle_N)))
            /\ OutputRegister(x_y) =
                  BitXor(OutputRegister(x_y_before),
                         oracle_function[InputRegister(x_y_before)] % Pow2(oracle_M)))
    /\ [][registered' # registered =>
            \E f \in {registered'[Len(registered')]} :
                /\ registered' = Append(registered, f)
                /\ x_y' = IF InputRegister(x_y) = f[1]
                          THEN BitXor(x_y, Pow2(f[2]))
                          ELSE x_y]_vars

\* C18 happens: bitflip_oracle returned after it flipped an output qubit of
\* a register whose input is not 0, for a function one of whose values does
\* not fit in M bits.
C18_Witness ==
    /\ pc = "oracle_done"
    /\ x_y # x_y_before
    /\ InputRegister(x_y) # 0
    /\ Len(registered) >= 2
    /\ \E i \in DOMAIN oracle_function : oracle_function[i] = Pow2(oracle_M)

====
